---------------------------- MODULE Spec2Model ----------------------------
(***************************************************************************)
(* A model of the ECG classification service in src/main.py: the model     *)
(* load at import time, the validate_files gate, and the predict_ecg_file  *)
(* request pipeline (staging into a TemporaryDirectory, the wfdb reader,    *)
(* normalisation, predict, response building), together with the way the   *)
(* framework turns the handler's result or exception into a response.       *)
(*                                                                         *)
(* Text is modelled as a sequence of tokens: a filename is a sequence of   *)
(* one-character tokens, a fixed piece of a message is one token, and an   *)
(* f-string is the concatenation of its pieces.                            *)
(***************************************************************************)
EXTENDS Integers, Sequences, FiniteSets, TLC

(***************************************************************************)
(* Bounds of the model.                                                    *)
(***************************************************************************)
\* The largest number of files in one upload set.
MaxFiles == 2

(***************************************************************************)
(* Text helpers.                                                           *)
(***************************************************************************)
UpperAlpha ==
    << "A", "B", "C", "D", "E", "F", "G", "H", "I", "J", "K", "L", "M",
       "N", "O", "P", "Q", "R", "S", "T", "U", "V", "W", "X", "Y", "Z" >>

LowerAlpha ==
    << "a", "b", "c", "d", "e", "f", "g", "h", "i", "j", "k", "l", "m",
       "n", "o", "p", "q", "r", "s", "t", "u", "v", "w", "x", "y", "z" >>

\* str.lower() on one character.
LowerChar(c) ==
    IF \E i \in 1..Len(UpperAlpha) : UpperAlpha[i] = c
    THEN LowerAlpha[CHOOSE i \in 1..Len(UpperAlpha) : UpperAlpha[i] = c]
    ELSE c

\* str.lower().
Lower(s) == [i \in 1..Len(s) |-> LowerChar(s[i])]

\* Whether text t occurs in text s as a contiguous run of tokens.
Contains(s, t) ==
    \E i \in 0..(Len(s) - Len(t)) : SubSeq(s, i + 1, i + Len(t)) = t

\* str.rfind(c), 1-based; 0 when c does not occur.
RFind(s, c) ==
    IF \E i \in 1..Len(s) : s[i] = c
    THEN CHOOSE i \in 1..Len(s) :
            s[i] = c /\ \A j \in (i + 1)..Len(s) : s[j] # c
    ELSE 0

\* str.split("/"): the pieces between separators, empty pieces included.
RECURSIVE Split(_, _, _)
Split(s, cur, acc) ==
    IF s = << >> THEN Append(acc, cur)
    ELSE IF Head(s) = "/" THEN Split(Tail(s), << >>, Append(acc, cur))
    ELSE Split(Tail(s), Append(cur, Head(s)), acc)

(***************************************************************************)
(* pathlib.  A path is the sequence of its components below the root; all  *)
(* paths of the model are absolute.                                        *)
(***************************************************************************)
\* The parts pathlib keeps of a path string: empty and "." parts are dropped,
\* ".." parts are kept.
PathParts(s) ==
    SelectSeq(Split(s, << >>, << >>), LAMBDA p : p # << >> /\ p # << "." >>)

\* Whether a path string is absolute.
IsAbsolute(s) == s # << >> /\ s[1] = "/"

\* PurePath.name: the last part, or the empty string.
PathName(parts) == IF parts = << >> THEN << >> ELSE parts[Len(parts)]

\* The condition of PurePath.suffix and PurePath.stem: the last dot is neither
\* the first nor the last character of the name.
HasSuffixDot(name) == 1 < RFind(name, ".") /\ RFind(name, ".") < Len(name)

\* PurePath.suffix of a name.
NameSuffix(name) ==
    IF HasSuffixDot(name)
    THEN SubSeq(name, RFind(name, "."), Len(name))
    ELSE << >>

\* PurePath.stem of a name.
NameStem(name) ==
    IF HasSuffixDot(name)
    THEN SubSeq(name, 1, RFind(name, ".") - 1)
    ELSE name

\* Path(filename).suffix.
Suffix(filename) == NameSuffix(PathName(PathParts(filename)))

\* Path(dir) / filename: an absolute filename replaces dir.
JoinPath(dir, filename) ==
    IF IsAbsolute(filename) THEN PathParts(filename)
    ELSE dir \o PathParts(filename)

(***************************************************************************)
(* Configuration (class Config).                                           *)
(***************************************************************************)
ALLOWED_EXTENSIONS == { << ".", "d", "a", "t" >>, << ".", "h", "e", "a" >> }

MAX_FILE_SIZE == 10 * 1024 * 1024

\* The declared size of an upload whose size is not known (file.size is None).
NoSize == -1


HTTP_400_BAD_REQUEST == 400

HTTP_413_REQUEST_ENTITY_TOO_LARGE == 413

HTTP_500_INTERNAL_SERVER_ERROR == 500

HTTP_200_OK == 200

(***************************************************************************)
(* Exceptions.  kind is "none" (nothing raised), "HTTPException" or        *)
(* "Exception" (any other exception; detail is then str(e)).               *)
(***************************************************************************)
NoExc == [kind |-> "none", status_code |-> 0, detail |-> << >>]

HTTPException(status_code, detail) ==
    [kind |-> "HTTPException", status_code |-> status_code, detail |-> detail]

Exception(msg) == [kind |-> "Exception", status_code |-> 0, detail |-> msg]

\* str(n) for a natural number n.
Digits == << "0", "1", "2", "3", "4", "5", "6", "7", "8", "9" >>

RECURSIVE IntStr(_)
IntStr(n) ==
    IF n < 10 THEN << Digits[n + 1] >>
    ELSE Append(IntStr(n \div 10), Digits[(n % 10) + 1])

(***************************************************************************)
(* validate_files.                                                         *)
(***************************************************************************)
\* extensions = {Path(f.filename).suffix.lower() for f in files}
Extensions(fs) == { Lower(Suffix(fs[i].filename)) : i \in 1..Len(fs) }

\* The extension check with its inner test inverted: it raises when some
\* extension is allowed.
ExtensionsRejectedInverted(extensions) ==
    /\ ~(ALLOWED_EXTENSIONS \subseteq (extensions \cup extensions))
    /\ \E ext \in extensions : ext \in ALLOWED_EXTENSIONS

\* The two nested conditions of the extension check: the allowed set is not a
\* subset of the extensions, and no extension is allowed.
ExtensionsRejected(extensions) ==
    /\ ~(ALLOWED_EXTENSIONS \subseteq (extensions \cup extensions))
    /\ ~(\E ext \in extensions : ext \in ALLOWED_EXTENSIONS)

\* The size test with >= for >.
TooLargeInclusive(file) ==
    /\ file.size # NoSize
    /\ file.size # 0
    /\ file.size >= MAX_FILE_SIZE

\* file.size and file.size > config.MAX_FILE_SIZE
TooLarge(file) ==
    /\ file.size # NoSize
    /\ file.size # 0
    /\ file.size > MAX_FILE_SIZE

\* The size loop reporting the last file over the cap instead of the first.
LastTooLarge(fs) ==
    CHOOSE i \in 1..Len(fs) :
        TooLarge(fs[i]) /\ \A j \in (i + 1)..Len(fs) : ~TooLarge(fs[j])

\* The first file the size loop rejects.
FirstTooLarge(fs) ==
    CHOOSE i \in 1..Len(fs) :
        TooLarge(fs[i]) /\ \A j \in 1..(i - 1) : ~TooLarge(fs[j])

\* ', '.join(config.ALLOWED_EXTENSIONS): a set is iterated in either order.
JoinedAllowed ==
    { p[1] \o << ", " >> \o p[2] :
        p \in { q \in ALLOWED_EXTENSIONS \X ALLOWED_EXTENSIONS : q[1] # q[2] } }

\* validate_files without its first check, the one for an empty upload set.
validate_filesNoEmptyCheck(fs) ==
    IF ExtensionsRejected(Extensions(fs))
    THEN { HTTPException(HTTP_400_BAD_REQUEST,
                         << "Please upload files with extensions: " >> \o j) :
             j \in JoinedAllowed }
    ELSE { NoExc }

\* The exceptions validate_files can raise for an upload set; {NoExc} when it
\* returns.
validate_files(fs) ==
    IF fs = << >>
    THEN { HTTPException(HTTP_400_BAD_REQUEST, << "No files uploaded" >>) }
    ELSE IF ExtensionsRejected(Extensions(fs))
    THEN { HTTPException(HTTP_400_BAD_REQUEST,
                         << "Please upload files with extensions: " >> \o j) :
             j \in JoinedAllowed }
    ELSE IF \E i \in 1..Len(fs) : TooLarge(fs[i])
    THEN { HTTPException(HTTP_413_REQUEST_ENTITY_TOO_LARGE,
                         << "File " >> \o fs[FirstTooLarge(fs)].filename
                         \o << " is too large. Max size: " >>
                         \o IntStr(MAX_FILE_SIZE \div (1024 * 1024))
                         \o << "MB" >>) }
    ELSE { NoExc }

(***************************************************************************)
(* The file system: the directories that exist and the regular files, each *)
(* a path with its content.  A content is the pair <<request, index>> of   *)
(* the upload whose bytes were copied.                                     *)
(***************************************************************************)
IsPrefix(p, q) == Len(p) <= Len(q) /\ SubSeq(q, 1, Len(p)) = p

Parent(p) == IF p = << >> THEN << >> ELSE SubSeq(p, 1, Len(p) - 1)

DotDot == << ".", "." >>

\* The directory a sequence of directory components leads to from cur, as the
\* operating system walks it: every component must be an existing directory.
RECURSIVE ResolveDir(_, _, _)
ResolveDir(parts, cur, dirs) ==
    IF parts = << >> THEN [ok |-> TRUE, path |-> cur]
    ELSE IF Head(parts) = DotDot
    THEN ResolveDir(Tail(parts), Parent(cur), dirs)
    ELSE IF Append(cur, Head(parts)) \in dirs
    THEN ResolveDir(Tail(parts), Append(cur, Head(parts)), dirs)
    ELSE [ok |-> FALSE, path |-> << >>]

\* The file a path names, once its directories are resolved.
Resolve(parts, dirs) ==
    IF parts = << >> THEN [ok |-> TRUE, path |-> << >>]
    ELSE LET d == ResolveDir(Parent(parts), << >>, dirs)
             last == parts[Len(parts)]
         IN  IF ~d.ok THEN d
             ELSE IF last = DotDot THEN [ok |-> TRUE, path |-> Parent(d.path)]
             ELSE [ok |-> TRUE, path |-> Append(d.path, last)]

\* str(e) of the OSError of open(path, "wb"); the empty text when it succeeds.
OpenError(parts, dirs) ==
    IF ~Resolve(parts, dirs).ok THEN << "No such file or directory" >>
    ELSE IF Resolve(parts, dirs).path \in dirs THEN << "Is a directory" >>
    ELSE << >>

\* The files after open(path, "wb") and copyfileobj: the file is created or
\* replaced.
WriteFile(fsf, path, data) ==
    { f \in fsf : f.path # path } \cup { [path |-> path, data |-> data] }

\* shutil.rmtree(dir), as TemporaryDirectory.cleanup() calls it.
RmtreeFiles(dir, fsf) == { f \in fsf : ~IsPrefix(dir, f.path) }

RmtreeDirs(dir, dirs) == { d \in dirs : ~IsPrefix(dir, d) }

\* tempfile.gettempdir()
TempRoot == << << "t", "m", "p" >> >>

\* The fresh directory mkdtemp() makes for a request: a name no other
\* request gets.
TempDirOf(r) == Append(TempRoot, << "t", Digits[r + 1] >>)

(***************************************************************************)
(* The uploads a request can carry.                                        *)
(***************************************************************************)
FileNames ==
    { << "r", ".", "d", "a", "t" >>,
      << "r", ".", "h", "e", "a" >>,
      << "r", ".", "H", "E", "A" >>,
      << "n", ".", "t", "x", "t" >>,
      << ".", "d", "a", "t" >>,
      << ".", ".", "/", "r", ".", "d", "a", "t" >>,
      << "s", "/", "r", ".", "h", "e", "a" >> }

FileSizes == { NoSize, MAX_FILE_SIZE, MAX_FILE_SIZE + 1 }

\* The lengths of the content of an upload whose size is not known: short,
\* and over the cap.
UnsizedLengths == { 1, MAX_FILE_SIZE + 1 }

\* An upload: its filename, its declared size and the length of its content.
\* A known size is the length of the content.
UploadFiles ==
    { [filename |-> n, size |-> s, length |-> s] :
        n \in FileNames, s \in FileSizes \ { NoSize } }
    \cup { [filename |-> n, size |-> NoSize, length |-> l] :
             n \in FileNames, l \in UnsizedLengths }

UploadSets == UNION { [1..n -> UploadFiles] : n \in 0..MaxFiles }

(***************************************************************************)
(* The external collaborators' possible answers.                           *)
(***************************************************************************)
\* record.p_signal of a readable record: samples by leads.
PSignals ==
    { << << 0, -1 >>, << 2, 3 >> >>,
      << << 1 >>, << 1 >>, << 1 >> >> }

\* str(e) of what wfdb.rdrecord raises.
ReaderNotFound == << "[Errno 2] No such file or directory" >>

ReaderCorrupt == << "invalid literal in header" >>

\* What predict returns: the full result, one without a confidence, and one
\* without a label.
PredictResults ==
    { [predicted_label |-> << "Normal" >>, predicted_class_index |-> 0,
       confidence |-> 93],
      [predicted_label |-> << "AFib" >>, predicted_class_index |-> 1],
      [predicted_class_index |-> 1, confidence |-> 50] }

PredictError == << "CUDA out of memory" >>

NormalizeError == << "could not convert to tensor" >>

DiskError == << "[Errno 28] No space left on device" >>

(***************************************************************************)
(* Matrices of samples.                                                    *)
(***************************************************************************)
\* numpy's .T of a non-empty matrix.
Transpose(m) ==
    [j \in 1..Len(m[1]) |-> [i \in 1..Len(m) |-> m[i][j]]]

RECURSIVE SeqSum(_)
SeqSum(s) == IF s = << >> THEN 0 ELSE Head(s) + SeqSum(Tail(s))

SeqMax(s) == CHOOSE x \in { s[i] : i \in 1..Len(s) } :
                \A i \in 1..Len(s) : s[i] <= x

SeqMin(s) == CHOOSE x \in { s[i] : i \in 1..Len(s) } :
                \A i \in 1..Len(s) : x <= s[i]

Squares(s) == [i \in 1..Len(s) |-> s[i] * s[i]]

RECURSIVE Flatten(_)
Flatten(m) == IF m = << >> THEN << >> ELSE Head(m) \o Flatten(Tail(m))

\* A rational number num / den, den > 0.
Ratio(num, den) == [num |-> num, den |-> den]

\* calculate_ecg_stats with the two indices of ecg_data.shape exchanged.
calculate_ecg_statsSwapped(ecg_data) ==
    LET all == Flatten(ecg_data)
        n == Len(all)
    IN  [num_leads |-> Len(ecg_data[1]),
         signal_length |-> Len(ecg_data),
         mean_amplitude |-> Ratio(SeqSum(all), n),
         std_amplitude_squared |->
             Ratio(n * SeqSum(Squares(all)) - SeqSum(all) * SeqSum(all), n * n),
         max_amplitude |-> SeqMax(all),
         min_amplitude |-> SeqMin(all)]

\* calculate_ecg_stats.  The mean is the rational sum / n; the standard
\* deviation is given by its square, the variance (n * sum of squares - sum^2)
\* / n^2.
calculate_ecg_stats(ecg_data) ==
    LET all == Flatten(ecg_data)
        n == Len(all)
    IN  [num_leads |-> Len(ecg_data),
         signal_length |-> Len(ecg_data[1]),
         mean_amplitude |-> Ratio(SeqSum(all), n),
         std_amplitude_squared |->
             Ratio(n * SeqSum(Squares(all)) - SeqSum(all) * SeqSum(all), n * n),
         max_amplitude |-> SeqMax(all),
         min_amplitude |-> SeqMin(all)]

\* The per-lead standardisation (x - mean) / (std + 1e-8) of one row, with
\* the 1e-8 left out: each value is n * x - sum over the square root of
\* n * sum of squares - sum^2.
NormalizeRow(row) ==
    [num |-> [i \in 1..Len(row) |-> Len(row) * row[i] - SeqSum(row)],
     den_squared |-> Len(row) * SeqSum(Squares(row)) - SeqSum(row) * SeqSum(row)]

Normalized(ecg_data) == [i \in 1..Len(ecg_data) |-> NormalizeRow(ecg_data[i])]

(***************************************************************************)
(* Responses.                                                              *)
(***************************************************************************)
\* The exception the construction of the PredictionResponse raises: a
\* KeyError for a key the result lacks.
ResponseError(result) ==
    IF "predicted_label" \notin DOMAIN result
    THEN Exception(<< "'predicted_label'" >>)
    ELSE IF "predicted_class_index" \notin DOMAIN result
    THEN Exception(<< "'predicted_class_index'" >>)
    ELSE NoExc

PredictionResponse(result, stats) ==
    [success |-> TRUE,
     predicted_class |-> result.predicted_label,
     predicted_class_index |-> result.predicted_class_index,
     confidence |-> IF "confidence" \in DOMAIN result
                    THEN result.confidence ELSE 0,
     ecg_stats |-> stats,
     message |-> << "ECG classification completed successfully" >>]

ErrorResponse(error, detail) ==
    [success |-> FALSE, error |-> error, detail |-> detail]

\* The reader's except clause with a fixed detail, str(e) dropped.
ReadFailureGeneric(e) ==
    HTTPException(HTTP_400_BAD_REQUEST, << "Failed to read ECG files" >>)

\* The except clause around the reader: any exception becomes a 400 that
\* carries str(e).
ReadFailure(e) ==
    HTTPException(HTTP_400_BAD_REQUEST,
                  << "Failed to read ECG files: " >> \o e.detail)

\* The handler's except clauses with the last one logging the exception and
\* not raising: the handler returns None.
HandlerExceptSwallow(e) ==
    IF e.kind = "HTTPException" THEN e ELSE NoExc

\* The except clauses of predict_ecg_file: an HTTPException is raised again,
\* any other exception becomes a 500 that carries str(e).
HandlerExcept(e) ==
    IF e.kind = "HTTPException" THEN e
    ELSE HTTPException(HTTP_500_INTERNAL_SERVER_ERROR,
                       << "Internal server error: " >> \o e.detail)

\* global_exception_handler: the response for an exception that is not an
\* HTTPException.
global_exception_handler(e) ==
    [status_code |-> 500,
     body |-> ErrorResponse(<< "Internal server error" >>,
                            << "An unexpected error occurred" >>)]

\* What the framework sends for the handler's outcome: the returned model
\* with status 200, an HTTPException as its status and {"detail": detail},
\* any other exception through global_exception_handler.
ResponseOf(e, retval) ==
    IF e.kind = "none" THEN [status_code |-> HTTP_200_OK, body |-> retval]
    ELSE IF e.kind = "HTTPException"
    THEN [status_code |-> e.status_code, body |-> [detail |-> e.detail]]
    ELSE global_exception_handler(e)

(***************************************************************************)
(* The state.                                                              *)
(***************************************************************************)
\* The request slots of the model.
Requests == { 1, 2 }

\* The stages of the pipeline, in the order of the handler's body.
StageOrder ==
    << "Validating", "Staging", "Reading", "Normalizing", "Predicting",
       "Responding" >>

VARIABLES
    model,     \* the module's global model: "unset", or "loaded"
    proc,      \* "starting" (the module is being imported), "serving", "dead"
    loop,      \* the request whose handler the event loop is running, or 0
    req,       \* per request: the handler's position and its local variables
    fsDirs,    \* the directories that exist
    fsFiles,   \* the regular files that exist, each [path, data]
    sent,      \* per request: the responses sent to the caller, in order
    hist       \* per request: what the handler has done so far (history)

vars == << model, proc, loop, req, fsDirs, fsFiles, sent, hist >>

\* The handler before the request arrives.
IdleRequest ==
    [pc |-> "idle", files |-> << >>, exc |-> NoExc, retval |-> << >>,
     tmpdirname |-> << >>, filenames |-> << >>, ecg_data |-> << >>,
     ecg_normalized |-> << >>, result |-> << >>]

\* Nothing done yet: the stages run (trace), the exception a stage raised
\* (raised), the paths written (written), the paths the reader opened (read)
\* and the contents it found there (readData), and whether the client has
\* left (cancelled: "no", or "before" or "after" the staging directory was
\* made).
NoHistory ==
    [trace |-> << >>, raised |-> NoExc, written |-> { }, read |-> { },
     readData |-> { }, cancelled |-> "no"]

Init ==
    /\ model = "unset"
    /\ proc = "starting"
    /\ loop = 0
    /\ req = [r \in Requests |-> IdleRequest]
    /\ fsDirs = { << >>, TempRoot }
    /\ fsFiles = { }
    /\ sent = [r \in Requests |-> << >>]
    /\ hist = [r \in Requests |-> NoHistory]

\* The history after a stage ran: its name, and Failed when it raised e.
Ran(h, stage, e) ==
    [h EXCEPT !.trace = IF e.kind = "none" THEN Append(@, stage)
                        ELSE @ \o << stage, "Failed" >>,
              !.raised = IF e.kind = "none" THEN @ ELSE e]

\* The history after a later step of a stage that already ran raised e.
Raised(h, e) ==
    [h EXCEPT !.trace = Append(@, "Failed"), !.raised = e]

(***************************************************************************)
(* Start-up: the model is loaded when the module is imported.              *)
(***************************************************************************)
LoadModelOk ==
    /\ proc = "starting"
    /\ model' = "loaded"
    /\ proc' = "serving"
    /\ UNCHANGED << loop, req, fsDirs, fsFiles, sent, hist >>

\* load_model raises and the except clause only logs: the import goes on
\* with no model.
LoadModelFailSwallow ==
    /\ proc = "starting"
    /\ proc' = "serving"
    /\ UNCHANGED << model, loop, req, fsDirs, fsFiles, sent, hist >>

\* load_model raises: the exception is logged and raised again, and the
\* import fails.
LoadModelFail ==
    /\ proc = "starting"
    /\ proc' = "dead"
    /\ UNCHANGED << model, loop, req, fsDirs, fsFiles, sent, hist >>

(***************************************************************************)
(* predict_ecg_file.                                                       *)
(***************************************************************************)
\* The framework has parsed the upload, one of the upload sets in sets, and
\* scheduled the handler.
Receive(r, sets) ==
    /\ proc = "serving"
    /\ req[r].pc = "idle"
    /\ \E fs \in sets :
          req' = [req EXCEPT ![r] = [@ EXCEPT !.pc = "received", !.files = fs]]
    /\ UNCHANGED << model, proc, loop, fsDirs, fsFiles, sent, hist >>

\* Where the handler goes after validate_files returned or raised e.
AfterValidate(e) == IF e.kind = "none" THEN "mkdtemp" ELSE "except"

\* The handler starting whether or not another one is running, as it could
\* if the running one had given up the event loop at an await.
ValidateWhileBusy(r) ==
    /\ req[r].pc = "received"
    /\ loop' = r
    /\ \E e \in validate_files(req[r].files) :
          /\ req' = [req EXCEPT ![r] =
                        [@ EXCEPT !.pc = AfterValidate(e), !.exc = e]]
          /\ hist' = [hist EXCEPT ![r] = Ran(@, "Validating", e)]
    /\ UNCHANGED << model, proc, fsDirs, fsFiles, sent >>

\* The handler starts on the event loop and calls validate_files.
Validate(r) ==
    /\ req[r].pc = "received"
    /\ loop = 0
    /\ loop' = r
    /\ \E e \in validate_files(req[r].files) :
          /\ req' = [req EXCEPT ![r] =
                        [@ EXCEPT !.pc = AfterValidate(e), !.exc = e]]
          /\ hist' = [hist EXCEPT ![r] = Ran(@, "Validating", e)]
    /\ UNCHANGED << model, proc, fsDirs, fsFiles, sent >>

\* with tempfile.TemporaryDirectory() as tmpdirname: the directory is made.
EnterTmp(r) ==
    /\ req[r].pc = "mkdtemp"
    /\ loop = r
    /\ fsDirs' = fsDirs \cup { TempDirOf(r) }
    /\ req' = [req EXCEPT ![r] =
                  [@ EXCEPT !.pc = "save", !.tmpdirname = TempDirOf(r)]]
    /\ hist' = [hist EXCEPT ![r] = Ran(@, "Staging", NoExc)]
    /\ UNCHANGED << model, proc, loop, fsFiles, sent >>

\* mkdtemp raises: no directory is made, and the with block is not entered.
EnterTmpFail(r) ==
    /\ req[r].pc = "mkdtemp"
    /\ loop = r
    /\ req' = [req EXCEPT ![r] =
                  [@ EXCEPT !.pc = "except", !.exc = Exception(DiskError)]]
    /\ hist' = [hist EXCEPT ![r] = Ran(@, "Staging", Exception(DiskError))]
    /\ UNCHANGED << model, proc, loop, fsDirs, fsFiles, sent >>

\* The upload the save loop is at, and the path it is written to.
SaveIndex(r) == Len(req[r].filenames) + 1

SavePath(r) == JoinPath(req[r].tmpdirname, req[r].files[SaveIndex(r)].filename)

\* The content of a staged file: the bytes of upload i of request r, all of
\* them or only a part (here none), and how many they are.
Content(r, i, complete) ==
    [request |-> r, index |-> i, complete |-> complete,
     length |-> IF complete THEN req[r].files[i].length ELSE 0]

\* One turn of the save loop: the file is opened and the upload copied to it.
SaveFile(r) ==
    /\ req[r].pc = "save"
    /\ loop = r
    /\ OpenError(SavePath(r), fsDirs) = << >>
    /\ LET target == Resolve(SavePath(r), fsDirs).path
       IN  /\ fsFiles' = WriteFile(fsFiles, target,
                                   Content(r, SaveIndex(r), TRUE))
           /\ hist' = [hist EXCEPT ![r].written = @ \cup { target }]
    /\ req' = [req EXCEPT ![r] =
                  [@ EXCEPT !.filenames = Append(@, SavePath(r)),
                            !.pc = IF SaveIndex(r) = Len(req[r].files)
                                   THEN "read" ELSE "save"]]
    /\ UNCHANGED << model, proc, loop, fsDirs, sent >>

\* open() raises: nothing is written.
SaveFileOpenFail(r) ==
    /\ req[r].pc = "save"
    /\ loop = r
    /\ OpenError(SavePath(r), fsDirs) # << >>
    /\ LET e == Exception(OpenError(SavePath(r), fsDirs))
       IN  /\ req' = [req EXCEPT ![r] = [@ EXCEPT !.pc = "exit", !.exc = e]]
           /\ hist' = [hist EXCEPT ![r] = Raised(@, e)]
    /\ UNCHANGED << model, proc, loop, fsDirs, fsFiles, sent >>

\* copyfileobj raises after open() made the file: a part of the upload is
\* written.
SaveFileCopyFail(r) ==
    /\ req[r].pc = "save"
    /\ loop = r
    /\ OpenError(SavePath(r), fsDirs) = << >>
    /\ LET target == Resolve(SavePath(r), fsDirs).path
           e == Exception(DiskError)
       IN  /\ fsFiles' = WriteFile(fsFiles, target,
                                   Content(r, SaveIndex(r), FALSE))
           /\ hist' = [hist EXCEPT ![r] =
                          [Raised(@, e) EXCEPT !.written = @ \cup { target }]]
           /\ req' = [req EXCEPT ![r] = [@ EXCEPT !.pc = "exit", !.exc = e]]
    /\ UNCHANGED << model, proc, loop, fsDirs, sent >>

\* The stem of the last staged file instead of the first.
BaseNameLast(r) == NameStem(PathName(req[r].filenames[Len(req[r].filenames)]))

\* base_name = Path(filenames[0]).stem
BaseName(r) == NameStem(PathName(req[r].filenames[1]))

\* record_path = str(Path(tmpdirname) / base_name)
RecordPath(r) == JoinPath(req[r].tmpdirname, BaseName(r))

\* The header file wfdb.rdrecord opens: record_path + ".hea".
HeaderPath(record_path) ==
    IF record_path = << >> THEN << << ".", "h", "e", "a" >> >>
    ELSE Append(Parent(record_path),
                record_path[Len(record_path)] \o << ".", "h", "e", "a" >>)

\* Whether a path names an existing regular file.
IsFile(parts, dirs, fsf) ==
    /\ Resolve(parts, dirs).ok
    /\ \E f \in fsf : f.path = Resolve(parts, dirs).path

\* The contents of the files the reader opens.
ReadContents(r) ==
    { f.data : f \in { g \in fsFiles :
                          /\ Resolve(HeaderPath(RecordPath(r)), fsDirs).ok
                          /\ g.path = Resolve(HeaderPath(RecordPath(r)),
                                              fsDirs).path } }

\* The reader's except clause logging the exception and going on.
ReadFailureContinue == "normalize"

\* Where the handler goes when the reader raised.
ReadFailurePc == "exit"

\* wfdb.rdrecord reads the record and ecg_data is its transposed signal.
ReadRecord(r, signals) ==
    /\ req[r].pc = "read"
    /\ loop = r
    /\ IsFile(HeaderPath(RecordPath(r)), fsDirs, fsFiles)
    /\ \E sig \in signals :
          req' = [req EXCEPT ![r] =
                     [@ EXCEPT !.pc = "normalize", !.ecg_data = Transpose(sig)]]
    /\ hist' = [hist EXCEPT ![r] =
                   [Ran(@, "Reading", NoExc) EXCEPT
                       !.read = @ \cup { HeaderPath(RecordPath(r)) },
                       !.readData = @ \cup ReadContents(r)]]
    /\ UNCHANGED << model, proc, loop, fsDirs, fsFiles, sent >>

\* wfdb.rdrecord raises: the header is missing, or it cannot be parsed.  The
\* except clause raises the 400.
ReadRecordFail(r) ==
    /\ req[r].pc = "read"
    /\ loop = r
    /\ LET e == IF IsFile(HeaderPath(RecordPath(r)), fsDirs, fsFiles)
                THEN Exception(ReaderCorrupt)
                ELSE Exception(ReaderNotFound)
       IN  /\ req' = [req EXCEPT ![r] =
                         [@ EXCEPT !.pc = ReadFailurePc,
                                   !.exc = ReadFailure(e)]]
           /\ hist' = [hist EXCEPT ![r] =
                          [Ran(@, "Reading", e) EXCEPT
                              !.read = @ \cup { HeaderPath(RecordPath(r)) },
                              !.readData = @ \cup ReadContents(r)]]
    /\ UNCHANGED << model, proc, loop, fsDirs, fsFiles, sent >>

\* The per-lead standardisation and the tensor.
Normalize(r) ==
    /\ req[r].pc = "normalize"
    /\ loop = r
    /\ req' = [req EXCEPT ![r] =
                  [@ EXCEPT !.pc = "predict",
                            !.ecg_normalized = Normalized(req[r].ecg_data)]]
    /\ hist' = [hist EXCEPT ![r] = Ran(@, "Normalizing", NoExc)]
    /\ UNCHANGED << model, proc, loop, fsDirs, fsFiles, sent >>

NormalizeFail(r) ==
    /\ req[r].pc = "normalize"
    /\ loop = r
    /\ LET e == Exception(NormalizeError)
       IN  /\ req' = [req EXCEPT ![r] = [@ EXCEPT !.pc = "exit", !.exc = e]]
           /\ hist' = [hist EXCEPT ![r] = Ran(@, "Normalizing", e)]
    /\ UNCHANGED << model, proc, loop, fsDirs, fsFiles, sent >>

\* result = predict(model, ecg_tensor)
Predict(r) ==
    /\ req[r].pc = "predict"
    /\ loop = r
    /\ model = "loaded"
    /\ \E res \in PredictResults :
          req' = [req EXCEPT ![r] = [@ EXCEPT !.pc = "build", !.result = res]]
    /\ hist' = [hist EXCEPT ![r] = Ran(@, "Predicting", NoExc)]
    /\ UNCHANGED << model, proc, loop, fsDirs, fsFiles, sent >>

PredictFail(r) ==
    /\ req[r].pc = "predict"
    /\ loop = r
    /\ LET e == Exception(PredictError)
       IN  /\ req' = [req EXCEPT ![r] = [@ EXCEPT !.pc = "exit", !.exc = e]]
           /\ hist' = [hist EXCEPT ![r] = Ran(@, "Predicting", e)]
    /\ UNCHANGED << model, proc, loop, fsDirs, fsFiles, sent >>

\* The statistics and the PredictionResponse; return response.
BuildResponse(r) ==
    /\ req[r].pc = "build"
    /\ loop = r
    /\ LET e == ResponseError(req[r].result)
       IN  /\ req' = [req EXCEPT ![r] =
                         [@ EXCEPT
                            !.pc = "exit",
                            !.exc = e,
                            !.retval =
                               IF e.kind = "none"
                               THEN PredictionResponse(
                                        req[r].result,
                                        calculate_ecg_stats(req[r].ecg_data))
                               ELSE @]]
           /\ hist' = [hist EXCEPT ![r] = Ran(@, "Responding", e)]
    /\ UNCHANGED << model, proc, loop, fsDirs, fsFiles, sent >>

\* The directory removed at the end of the body only, and not when an
\* exception leaves it.
ExitTmpLeaky(r) ==
    /\ req[r].pc = "exit"
    /\ loop = r
    /\ fsFiles' = IF req[r].exc.kind = "none"
                  THEN RmtreeFiles(req[r].tmpdirname, fsFiles) ELSE fsFiles
    /\ fsDirs' = IF req[r].exc.kind = "none"
                 THEN RmtreeDirs(req[r].tmpdirname, fsDirs) ELSE fsDirs
    /\ req' = [req EXCEPT ![r] =
                  [@ EXCEPT !.pc = IF req[r].exc.kind = "none"
                                   THEN "send" ELSE "except"]]
    /\ UNCHANGED << model, proc, loop, sent, hist >>

\* The with block is left, by return or by an exception: the directory and
\* what it holds are removed.
ExitTmp(r) ==
    /\ req[r].pc = "exit"
    /\ loop = r
    /\ fsFiles' = RmtreeFiles(req[r].tmpdirname, fsFiles)
    /\ fsDirs' = RmtreeDirs(req[r].tmpdirname, fsDirs)
    /\ req' = [req EXCEPT ![r] =
                  [@ EXCEPT !.pc = IF req[r].exc.kind = "none"
                                   THEN "send" ELSE "except"]]
    /\ UNCHANGED << model, proc, loop, sent, hist >>

\* The except clauses of the handler.
Except(r) ==
    /\ req[r].pc = "except"
    /\ loop = r
    /\ req' = [req EXCEPT ![r] =
                  [@ EXCEPT !.pc = "send", !.exc = HandlerExcept(@)]]
    /\ UNCHANGED << model, proc, loop, fsDirs, fsFiles, sent, hist >>

\* The handler has ended: the framework sends the response, and the event
\* loop is free again.
Send(r) ==
    /\ req[r].pc = "send"
    /\ loop = r
    /\ sent' = [sent EXCEPT ![r] =
                   Append(@, ResponseOf(req[r].exc, req[r].retval))]
    /\ req' = [req EXCEPT ![r] = [@ EXCEPT !.pc = "done"]]
    /\ loop' = 0
    /\ UNCHANGED << model, proc, fsDirs, fsFiles, hist >>

\* The steps of the handler of request r.
Handle(r) ==
    \/ Validate(r)
    \/ EnterTmp(r)
    \/ EnterTmpFail(r)
    \/ SaveFile(r)
    \/ SaveFileOpenFail(r)
    \/ SaveFileCopyFail(r)
    \/ ReadRecord(r, PSignals)
    \/ ReadRecordFail(r)
    \/ Normalize(r)
    \/ NormalizeFail(r)
    \/ Predict(r)
    \/ PredictFail(r)
    \/ BuildResponse(r)
    \/ ExitTmp(r)
    \/ Except(r)
    \/ Send(r)

\* One request, with any upload set.
Next ==
    \/ LoadModelOk
    \/ LoadModelFail
    \/ Receive(1, UploadSets)
    \/ \E r \in Requests : Handle(r)

Spec == Init /\ [][Next]_vars

(***************************************************************************)
(* Two requests on one event loop, and clients that leave.                 *)
(***************************************************************************)
\* The upload sets of overlapping requests: a header alone, a header after a
\* file with a parent-directory name, and a file below a directory that does
\* not exist.  Both requests draw from the same sets, so their filenames
\* can be identical.
ConcUploadSets ==
    { << [filename |-> << "r", ".", "h", "e", "a" >>, size |-> NoSize,
          length |-> 1] >>,
      << [filename |-> << ".", ".", "/", "r", ".", "d", "a", "t" >>,
          size |-> NoSize, length |-> MAX_FILE_SIZE + 1],
         [filename |-> << "r", ".", "h", "e", "a" >>, size |-> NoSize,
          length |-> 1] >>,
      << [filename |-> << "s", "/", "r", ".", "h", "e", "a" >>,
          size |-> NoSize, length |-> 1] >> }

\* The client of request r disconnects while the request is in the server.
\* The handler has no await, so nothing is raised in it: it runs on.
Cancel(r) ==
    /\ req[r].pc \notin { "idle", "done" }
    /\ hist[r].cancelled = "no"
    /\ hist' = [hist EXCEPT ![r].cancelled =
                   IF req[r].tmpdirname = << >> THEN "before" ELSE "after"]
    /\ UNCHANGED << model, proc, loop, req, fsDirs, fsFiles, sent >>

NextConc ==
    \/ LoadModelOk
    \/ LoadModelFail
    \/ \E r \in Requests : Receive(r, ConcUploadSets)
    \/ \E r \in Requests : Handle(r)
    \/ \E r \in Requests : Cancel(r)

SpecConc == Init /\ [][NextConc]_vars

(***************************************************************************)
(* One request whose record holds any waveform of a bounded shape.         *)
(***************************************************************************)
MaxSamples == 2

MaxLeads == 2

\* The sample values.
Amplitudes == -1 .. 1

\* record.p_signal: every samples-by-leads matrix within the bounds.
Waveforms ==
    UNION { [1..s -> [1..l -> Amplitudes]] :
              s \in 1..MaxSamples, l \in 1..MaxLeads }

\* The header the request has staged.
StatsUpload ==
    [filename |-> << "r", ".", "h", "e", "a" >>, size |-> NoSize, length |-> 1]

\* The state in which request 1 has staged a header file and is about to
\* read the record.
InitStats ==
    /\ model = "loaded"
    /\ proc = "serving"
    /\ loop = 1
    /\ req = [r \in Requests |->
                IF r = 1
                THEN [IdleRequest EXCEPT
                        !.pc = "read",
                        !.files = << StatsUpload >>,
                        !.tmpdirname = TempDirOf(1),
                        !.filenames =
                            << JoinPath(TempDirOf(1), StatsUpload.filename) >>]
                ELSE IdleRequest]
    /\ fsDirs = { << >>, TempRoot, TempDirOf(1) }
    /\ fsFiles = { [path |-> JoinPath(TempDirOf(1), StatsUpload.filename),
                    data |-> Content(1, 1, TRUE)] }
    /\ sent = [r \in Requests |-> << >>]
    /\ hist = [r \in Requests |->
                 IF r = 1
                 THEN [NoHistory EXCEPT
                         !.trace = << "Validating", "Staging" >>,
                         !.written =
                             { JoinPath(TempDirOf(1), StatsUpload.filename) }]
                 ELSE NoHistory]

NextStats ==
    \E r \in Requests :
        \/ ReadRecord(r, Waveforms)
        \/ ReadRecordFail(r)
        \/ Normalize(r)
        \/ NormalizeFail(r)
        \/ Predict(r)
        \/ PredictFail(r)
        \/ BuildResponse(r)
        \/ ExitTmp(r)
        \/ Except(r)
        \/ Send(r)

SpecStats == InitStats /\ [][NextStats]_vars

(***************************************************************************)
(* Properties.                                                             *)
(***************************************************************************)
Done(r) == req[r].pc = "done"

\* The response the caller got.
Response(r) == sent[r][1]

\* The stage that raised, or "none".
FailedStage(r) ==
    LET t == hist[r].trace
    IN  IF Len(t) >= 2 /\ t[Len(t)] = "Failed" THEN t[Len(t) - 1] ELSE "none"

\* Whether a stage has run.
HasRun(r, stage) == \E i \in 1..Len(hist[r].trace) : hist[r].trace[i] = stage

\* Whether a filename's extension, lower-cased, is an allowed one.
AllowedName(filename) == Lower(Suffix(filename)) \in ALLOWED_EXTENSIONS

NoAllowedExtension(fs) == \A i \in 1..Len(fs) : ~AllowedName(fs[i].filename)

\* Whether a file's declared size exceeds the cap.
Oversize(file) == file.size > MAX_FILE_SIZE

\* Whether path p lies in directory dir (or is dir).
Inside(dir, p) == IsPrefix(dir, p)

\* C1: once a request that created a staging directory has completed, with
\* whatever response, the directory and every file staged in it are gone.
C1_StagingRemoved ==
    \A r \in Requests :
        (Done(r) /\ req[r].tmpdirname # << >>) =>
            /\ \A d \in fsDirs : ~Inside(req[r].tmpdirname, d)
            /\ \A f \in fsFiles : ~Inside(req[r].tmpdirname, f.path)

\* A request that staged a file in its directory and then failed has completed.
C1_Witness ==
    \E r \in Requests :
        /\ Done(r)
        /\ req[r].tmpdirname # << >>
        /\ \E p \in hist[r].written : Inside(req[r].tmpdirname, p)
        /\ Response(r).status_code = 500

\* The stages whose exceptions are unexpected ones (the reader's and the
\* validator's are the expected ones).
UnexpectedStages == { "Staging", "Normalizing", "Predicting", "Responding" }

RedactedDetail == << "An unexpected error occurred" >>

\* C2: after an unexpected internal exception the response has status 500,
\* its detail is the fixed redacted message, and the text of the exception is
\* not in it.
C2_Redacted ==
    \A r \in Requests :
        (Done(r) /\ FailedStage(r) \in UnexpectedStages) =>
            /\ Response(r).status_code = 500
            /\ Response(r).body.detail = RedactedDetail
            /\ ~Contains(Response(r).body.detail, hist[r].raised.detail)

\* Whether the response is the success response.
IsSuccess(resp) ==
    /\ resp.status_code = 200
    /\ "success" \in DOMAIN resp.body
    /\ resp.body.success = TRUE

\* C3: a request gets exactly one response, and only when it has completed;
\* it is the success response exactly when all six stages ran and none
\* raised, and otherwise an error response with status 400, 413 or 500.
C3_OneOutcome ==
    \A r \in Requests :
        /\ Len(sent[r]) = IF Done(r) THEN 1 ELSE 0
        /\ Done(r) =>
              /\ IsSuccess(Response(r)) <=>
                    (hist[r].trace = StageOrder /\ hist[r].raised.kind = "none")
              /\ ~IsSuccess(Response(r)) =>
                    Response(r).status_code \in { 400, 413, 500 }

\* A request has completed with the success response.
C3_Witness ==
    \E r \in Requests : Done(r) /\ IsSuccess(Response(r))

\* C4: a non-empty upload set without any allowed extension is rejected by
\* the validator with a 4xx, and nothing is staged for it: the pipeline stops
\* at validation, no directory is made and no file written.
C4_RejectedBeforeStaging ==
    \A r \in Requests :
        (req[r].files # << >> /\ NoAllowedExtension(req[r].files)) =>
            /\ req[r].tmpdirname = << >>
            /\ TempDirOf(r) \notin fsDirs
            /\ hist[r].written = { }
            /\ \A f \in fsFiles : f.data.request # r
            /\ ~HasRun(r, "Staging")
            /\ hist[r].trace # << >> =>
                  /\ hist[r].trace = << "Validating", "Failed" >>
                  /\ hist[r].raised.status_code \in 400..499
            /\ Done(r) => Response(r).status_code \in 400..499

\* Such a request has completed.
C4_Witness ==
    \E r \in Requests :
        /\ Done(r)
        /\ req[r].files # << >>
        /\ NoAllowedExtension(req[r].files)
        /\ Response(r).status_code = 400

\* The first file of an upload set whose declared size exceeds the cap.
FirstOversize(fs) ==
    CHOOSE i \in 1..Len(fs) :
        Oversize(fs[i]) /\ \A j \in 1..(i - 1) : ~Oversize(fs[j])

\* Whether a 413 detail names a file.
NamesFile(detail, filename) ==
    Contains(detail, << "File " >> \o filename \o << " is too large. Max size: " >>)

\* C5, as claimed: every upload set with a file over the cap ends in a 413
\* whose detail names such a file.
C5_Original ==
    \A r \in Requests :
        (Done(r) /\ \E i \in 1..Len(req[r].files) : Oversize(req[r].files[i])) =>
            /\ Response(r).status_code = 413
            /\ \E i \in 1..Len(req[r].files) :
                  /\ Oversize(req[r].files[i])
                  /\ NamesFile(Response(r).body.detail, req[r].files[i].filename)

\* C5, amended: every upload set with at least one allowed extension and a
\* file over the cap ends in a 413 whose detail names the first file over the
\* cap.
C5_Amended ==
    \A r \in Requests :
        (/\ Done(r)
         /\ ~NoAllowedExtension(req[r].files)
         /\ \E i \in 1..Len(req[r].files) : Oversize(req[r].files[i])) =>
            /\ Response(r).status_code = 413
            /\ NamesFile(Response(r).body.detail,
                         req[r].files[FirstOversize(req[r].files)].filename)

\* A request with two files over the cap has ended in a 413.
C5_Witness ==
    \E r \in Requests :
        /\ Done(r)
        /\ Len(req[r].files) = 2
        /\ \A i \in 1..2 : Oversize(req[r].files[i])
        /\ req[r].files[1].filename # req[r].files[2].filename
        /\ Response(r).status_code = 413

\* C6: when the reader raised, predict is never called, and the request ends
\* with status 400 and a detail that holds the reader's own message.
C6_ReaderFailure ==
    \A r \in Requests :
        FailedStage(r) = "Reading" =>
            /\ ~HasRun(r, "Predicting")
            /\ Done(r) =>
                  /\ Response(r).status_code = 400
                  /\ hist[r].raised.detail # << >>
                  /\ Contains(Response(r).body.detail, hist[r].raised.detail)

\* A request whose header could not be parsed has completed.
C6_Witness ==
    \E r \in Requests :
        /\ Done(r)
        /\ FailedStage(r) = "Reading"
        /\ hist[r].raised.detail = ReaderCorrupt

\* C7: every error response has the payload shape success=false, error,
\* detail.
C7_ErrorShape ==
    \A r \in Requests :
        (Done(r) /\ Response(r).status_code # 200) =>
            /\ DOMAIN Response(r).body = { "success", "error", "detail" }
            /\ Response(r).body.success = FALSE

\* The order invariant of a trace: every entry but a final Failed is the
\* stage of its position, so the stages run in order and once each, and
\* nothing runs after Failed.
OrderedTrace(t) ==
    \A i \in 1..Len(t) :
        IF t[i] = "Failed" THEN i = Len(t) /\ i > 1
        ELSE i <= Len(StageOrder) /\ t[i] = StageOrder[i]

\* Whether a trace has ended: it failed, or the response was built.
Ended(t) ==
    /\ t # << >>
    /\ \/ t[Len(t)] = "Failed"
       \/ t[Len(t)] = "Responding"

\* C8: the stages of a request run in the order Validating, Staging,
\* Reading, Normalizing, Predicting, Responding, each at most once; a stage
\* that raises is followed by Failed and by no other stage; once the trace
\* has ended in Failed or in Responding it never grows.
C8_StageOrder ==
    /\ [](\A r \in Requests : OrderedTrace(hist[r].trace))
    /\ [][\A r \in Requests :
            Ended(hist[r].trace) => hist'[r].trace = hist[r].trace]_vars

\* A request whose reader raised has completed: neither Normalizing nor
\* Predicting ran.
C8_Witness ==
    \E r \in Requests :
        /\ Done(r)
        /\ hist[r].trace = << "Validating", "Staging", "Reading", "Failed" >>

\* C9: an upload set that passed validation and was staged is non-empty, all
\* its filenames have an allowed extension and all its declared sizes are
\* within the cap.
C9_UploadSetInvariant ==
    \A r \in Requests :
        (req[r].filenames # << >> /\ Len(req[r].filenames) = Len(req[r].files)) =>
            /\ req[r].files # << >>
            /\ \A i \in 1..Len(req[r].files) :
                  /\ AllowedName(req[r].files[i].filename)
                  /\ ~Oversize(req[r].files[i])

\* Whether validate_files raised.
ValidationFailed(r) == FailedStage(r) = "Validating"

\* C10: validate_files raises exactly when the upload set is empty, or no
\* filename has an allowed extension, or some declared size exceeds the cap.
C10_ValidateExactly ==
    \A r \in Requests :
        hist[r].trace # << >> =>
            (ValidationFailed(r) <=>
                \/ req[r].files = << >>
                \/ NoAllowedExtension(req[r].files)
                \/ \E i \in 1..Len(req[r].files) : Oversize(req[r].files[i]))

\* An upload set with only header files, one of them exactly at the cap, has
\* passed validation.
C10_Witness ==
    \E r \in Requests :
        /\ hist[r].trace # << >>
        /\ ~ValidationFailed(r)
        /\ Extensions(req[r].files) = { << ".", "h", "e", "a" >> }
        /\ \E i \in 1..Len(req[r].files) : req[r].files[i].size = MAX_FILE_SIZE

\* C11: of two overlapping requests, in whatever order their steps run and
\* with whatever filenames (the same ones too), each stages only into its
\* own directory, the reader of each reads only what that request staged,
\* and the cleanup of one leaves every file of the other as it is.
C11_Isolated ==
    /\ [](\A r \in Requests : \A q \in Requests \ { r } :
            (req[r].pc # "idle" /\ req[q].pc # "idle") =>
                /\ TempDirOf(q) # TempDirOf(r)
                /\ \A p \in hist[r].written :
                      Inside(TempDirOf(r), p) /\ p \notin hist[q].written
                /\ \A d \in hist[r].readData : d.request = r)
    /\ [][\A r \in Requests :
            (req[r].pc = "exit" /\ req'[r].pc # "exit") =>
                \A f \in fsFiles : f.data.request # r => f \in fsFiles']_vars

\* C12: when the client of a request left after the staging directory was
\* made, then once the request has ended the staging directory is gone and
\* no file the request staged exists any more, for a later request to see.
C12_CancelledReleased ==
    \A r \in Requests :
        (Done(r) /\ hist[r].cancelled = "after") =>
            /\ \A d \in fsDirs : ~Inside(req[r].tmpdirname, d)
            /\ \A f \in fsFiles : f.data.request # r

\* C13: a request with an empty upload set ends in a 400 response whose
\* detail is "No files uploaded"; validate_files raises it at once, so no
\* other check decides and nothing is staged.
C13_NoFiles ==
    \A r \in Requests :
        (req[r].files = << >> /\ hist[r].trace # << >>) =>
            /\ hist[r].trace = << "Validating", "Failed" >>
            /\ hist[r].raised =
                  HTTPException(HTTP_400_BAD_REQUEST, << "No files uploaded" >>)
            /\ req[r].tmpdirname = << >>
            /\ TempDirOf(r) \notin fsDirs
            /\ hist[r].written = { }
            /\ Done(r) =>
                  Response(r) = [status_code |-> HTTP_400_BAD_REQUEST,
                                 body |-> [detail |-> << "No files uploaded" >>]]

\* A request with an empty upload set has been answered.
C13_Witness ==
    \E r \in Requests :
        /\ Done(r)
        /\ req[r].files = << >>
        /\ Response(r).status_code = HTTP_400_BAD_REQUEST

\* C14: the model is loaded once, at startup and before any request; when
\* load_model raises the process never serves, so no request is received or
\* answered by it; and predict only ever runs with the model loaded.
C14_ModelLoaded ==
    /\ [](/\ proc = "serving" => model = "loaded"
          /\ \A r \in Requests :
                /\ req[r].pc # "idle" => (proc = "serving" /\ model = "loaded")
                /\ HasRun(r, "Predicting") => model = "loaded"
                /\ proc = "dead" =>
                      /\ model = "unset"
                      /\ req[r].pc = "idle"
                      /\ hist[r].trace = << >>
                      /\ sent[r] = << >>)
    /\ [][model' # model =>
            /\ proc = "starting"
            /\ \A r \in Requests : req[r].pc = "idle"]_vars

\* load_model has raised and the process is gone.
C14_Witness == proc = "dead" /\ model = "unset"

\* C15: whatever the filenames, staging writes every upload, and only below
\* the staging directory of its request: no filename makes open() fail, no
\* file is written anywhere else, and once the request has ended nothing it
\* wrote is left.
C15_StagedInside ==
    \A r \in Requests :
        /\ \A p \in hist[r].written :
              /\ req[r].tmpdirname # << >>
              /\ Inside(req[r].tmpdirname, p)
              /\ p # req[r].tmpdirname
        /\ FailedStage(r) = "Staging" => hist[r].raised = Exception(DiskError)
        /\ Done(r) => \A f \in fsFiles : f.data.request # r

\* The name of the first file of the upload set, without its extension.
FirstStem(r) == NameStem(PathName(PathParts(req[r].files[1].filename)))

\* C16: the record the reader is given is the stem of the first file of the
\* upload set, joined to the staging directory: the reader opens the header
\* of that record and no other, whatever the names of the other files.
C16_RecordOfFirstFile ==
    \A r \in Requests :
        /\ HasRun(r, "Reading") =>
              hist[r].read =
                  { Append(req[r].tmpdirname,
                           FirstStem(r) \o << ".", "h", "e", "a" >>) }
        /\ req[r].pc = "read" =>
              RecordPath(r) = Append(req[r].tmpdirname, FirstStem(r))

\* The reader has run for an upload set whose second file has another stem
\* than the first.
C16_Witness ==
    \E r \in Requests :
        /\ HasRun(r, "Reading")
        /\ Len(req[r].files) >= 2
        /\ NameStem(PathName(PathParts(req[r].files[2].filename))) # FirstStem(r)
        /\ Lower(Suffix(req[r].files[1].filename)) # << ".", "h", "e", "a" >>

\* The samples of a waveform.
Samples(w) == { w[i][j] : i \in 1..Len(w), j \in 1..Len(w[1]) }

\* C17: the statistics of a success response are those of the raw waveform
\* W: num_leads and signal_length are the numbers of W's rows and columns,
\* the mean is the sum of W's samples over their number, the minimum and the
\* maximum are the least and the greatest sample, min <= mean <= max, and
\* the standard deviation (here its square) is not negative.
C17_StatsOfRaw ==
    \A r \in Requests :
        (Done(r) /\ IsSuccess(Response(r))) =>
            LET W == req[r].ecg_data
                s == Response(r).body.ecg_stats
                mean == s.mean_amplitude
            IN  /\ s.num_leads = Len(W)
                /\ s.signal_length = Len(W[1])
                /\ mean.den = Len(W) * Len(W[1])
                /\ mean.num = SeqSum(Flatten(W))
                /\ s.min_amplitude \in Samples(W)
                /\ s.max_amplitude \in Samples(W)
                /\ \A x \in Samples(W) :
                      s.min_amplitude <= x /\ x <= s.max_amplitude
                /\ s.min_amplitude * mean.den <= mean.num
                /\ mean.num <= s.max_amplitude * mean.den
                /\ s.std_amplitude_squared.num >= 0
                /\ s.std_amplitude_squared.den > 0

\* A success response for a waveform that is not square, whose samples
\* differ and do not sum to zero.
C17_Witness ==
    \E r \in Requests :
        /\ Done(r)
        /\ IsSuccess(Response(r))
        /\ Len(req[r].ecg_data) # Len(req[r].ecg_data[1])
        /\ Response(r).body.ecg_stats.min_amplitude
               < Response(r).body.ecg_stats.max_amplitude
        /\ Response(r).body.ecg_stats.mean_amplitude.num # 0

\* Whether upload i of request r is the one the save loop has just staged.
JustStaged(r, i) ==
    /\ req[r].pc \in { "save", "read" }
    /\ i = Len(req[r].filenames)
    /\ i >= 1

\* C18: only a file with a known, non-zero declared size is rejected with
\* 413; a file with no declared size is not, whatever the length of its
\* content, and when it is staged all of its content is in a file of the
\* staging directory.
C18_UnsizedStaged ==
    \A r \in Requests :
        /\ hist[r].raised.status_code = HTTP_413_REQUEST_ENTITY_TOO_LARGE =>
              \E i \in 1..Len(req[r].files) :
                  /\ req[r].files[i].size \notin { NoSize, 0 }
                  /\ req[r].files[i].size > MAX_FILE_SIZE
        /\ \A i \in 1..Len(req[r].files) :
              (JustStaged(r, i) /\ req[r].files[i].size = NoSize) =>
                  \E f \in fsFiles :
                      /\ Inside(req[r].tmpdirname, f.path)
                      /\ f.data = [request |-> r, index |-> i,
                                   complete |-> TRUE,
                                   length |-> req[r].files[i].length]

\* Whether the handler of request r has started and not yet returned.
Running(r) == req[r].pc \notin { "idle", "received", "done" }

\* C19: the handler gives up the event loop nowhere between its validation
\* and its response, so two handlers are never both under way (and predict
\* never runs for two requests at once), and while one is under way the
\* other request takes no step of its handler.
C19_Serialised ==
    /\ [](\A r \in Requests :
            /\ Running(r) => loop = r
            /\ \A q \in Requests \ { r } :
                  /\ ~(Running(r) /\ Running(q))
                  /\ ~(req[r].pc = "predict" /\ req[q].pc = "predict"))
    /\ [][\A r \in Requests : \A q \in Requests \ { r } :
            (Running(r) /\ req'[q] # req[q]) =>
                (req[q].pc = "idle" /\ req'[q].pc = "received")]_vars

\* One request is at predict while the other has arrived and waits for the
\* event loop.
C19_Witness ==
    \E r \in Requests : \E q \in Requests \ { r } :
        req[r].pc = "predict" /\ req[q].pc = "received"

=============================================================================
